---- MODULE Spec2Model ----
(***************************************************************************)
(* Model of the testing_workshop package: the meme pipeline of             *)
(* i_need_testing.py and the metric store of metrics.py / model.py.        *)
(*                                                                         *)
(* Python strings are modelled as sequences of one-character strings, so   *)
(* that str.split, str.join and str.lower are computed character by        *)
(* character.  Fixed literals that the code never takes apart (URLs,       *)
(* template names, the file path) are kept as single tokens.               *)
(***************************************************************************)
EXTENDS Integers, Sequences, FiniteSets, TLC

VARIABLES
    \* ---- create_meme (i_need_testing.py) ----
    pc,           \* position of create_meme
    quote,        \* local `quote` of create_meme
    top_text,     \* local `top_text` of create_meme
    bottom_text,  \* local `bottom_text` of create_meme
    meme,         \* local `meme` of create_meme
    calls,        \* the calls create_meme has made: function, arguments, return
    requests,     \* the URLs of the requests.get calls, in order
    responses,    \* what each of those requests.get calls produced
    opened,       \* the open(path, mode) calls, in order
    written,      \* the f.write(bytes) calls, in order
    handle,       \* the file object of save_meme: "none", "open" or "closed"
    raised,       \* the exception that left create_meme, or "none"
    \* ---- metric store (metrics.py, model.py) ----
    table,        \* the rows of table `metrics`, in rowid order
    trace,        \* the calls made by the last store operation, in order
    outcome       \* the last store operation: arguments, result, exception

memeVars  == <<pc, quote, top_text, bottom_text, meme, calls, requests,
               responses, opened, written, handle, raised>>
storeVars == <<table, trace, outcome>>
vars      == <<memeVars, storeVars>>

(***************************************************************************)
(* Bounds of the model.                                                    *)
(***************************************************************************)
MaxQuoteLen == 5     \* longest quote text, in characters
MaxRows     == 2     \* rows the table may hold before inserts are cut off
MaxBatch    == 2     \* longest list given to insert_metrics
MaxValue    == 2     \* largest value of a Metric built by a caller

QuoteChars == {"a", "b", "c", " ", "\t"}
Quotes     == UNION {[1..n -> QuoteChars] : n \in 0..MaxQuoteLen}
Payloads   == {<<>>, <<109, 101>>}

(***************************************************************************)
(* Python string primitives.                                               *)
(***************************************************************************)
\* str.isspace for one character, as str.split() without arguments uses it
IsSpace(c) == c \in {" ", "\t", "\n", "\r", "\f"}

\* str.split(): the maximal runs of non-whitespace characters, in order
StrSplit(s) ==
    LET RECURSIVE go(_, _, _)
        go(i, cur, acc) ==
            LET flushed == IF cur = <<>> THEN acc ELSE Append(acc, cur)
            IN  IF i > Len(s) THEN flushed
                ELSE IF IsSpace(s[i]) THEN go(i + 1, <<>>, flushed)
                ELSE go(i + 1, Append(cur, s[i]), acc)
    IN  go(1, <<>>, <<>>)

\* sep.join(ws)
RECURSIVE StrJoin(_, _)
StrJoin(sep, ws) ==
    IF ws = <<>> THEN <<>>
    ELSE IF Len(ws) = 1 THEN ws[1]
    ELSE ws[1] \o sep \o StrJoin(sep, Tail(ws))

(***************************************************************************)
(* i_need_testing.py                                                       *)
(***************************************************************************)
QuoteUrl == <<"https://zenquotes.io/api/random">>

\* what requests.get(QuoteUrl) can produce: the call raises, the body is no
\* JSON, or the body decodes to a list of objects
QuoteResponses ==
    {[kind |-> "ConnectionError", json |-> <<>>],
     [kind |-> "JSONDecodeError", json |-> <<>>]}
    \cup {[kind |-> "ok", json |-> <<>>]}
    \cup {[kind |-> "ok", json |-> <<[a |-> <<"b">>]>>]}
    \cup {[kind |-> "ok", json |-> <<[q |-> s, a |-> <<"b">>]>>] : s \in Quotes}
    \cup {[kind |-> "ok", json |-> <<[q |-> <<"a", " ", "b">>, a |-> <<>>],
                                     [q |-> <<"c">>, a |-> <<>>]>>]}

construct_meme_url_swapped(meme_name, top, bottom) ==
    <<"https://apimeme.com/meme?meme=", meme_name, "&top=">> \o bottom
        \o <<"&bottom=">> \o top

construct_meme_url(meme_name, top, bottom) ==
    <<"https://apimeme.com/meme?meme=", meme_name, "&top=">> \o top
        \o <<"&bottom=">> \o bottom

memes ==
    <<"10-Guy", "Advice-Dog", "Actual-Advice-Mallard", "Ancient-Aliens",
      "Albert-Cagestein", "Bad-Joke-Eel", "1990s-First-World-Problems",
      "American-Chopper-Argument", "Back-In-My-Day", "Awkward-Moment-Sealion",
      "Castaway-Fire">>

generate_meme_headings_ceil(q) ==
    LET words == StrSplit(q)
        half  == (Len(words) + 1) \div 2
    IN  <<StrJoin(<<" ">>, SubSeq(words, 1, half)),
          StrJoin(<<" ">>, SubSeq(words, half + 1, Len(words)))>>

generate_meme_headings(q) ==
    LET words == StrSplit(q)
        half  == Len(words) \div 2
    IN  <<StrJoin(<<" ">>, SubSeq(words, 1, half)),
          StrJoin(<<" ">>, SubSeq(words, half + 1, Len(words)))>>

\* the value of Python's None
None == [none |-> TRUE]

\* A call of create_meme: ret is <<v>> when the call returned v and <<>>
\* when it raised.
Called(fn, args, ret) ==
    calls' = Append(calls, [fn |-> fn, args |-> args, ret |-> ret])

\* A failure that is recorded while create_meme goes on with its next line,
\* as if the call were wrapped in try/except.
RaiseAndGoOn(exc) ==
    /\ raised' = exc
    /\ pc' = CASE pc = "Start" -> "QuoteFetched"
               [] pc = "QuoteFetched" -> "HeadingsSplit"
               [] pc = "HeadingsSplit" -> "MemeRendered"
               [] OTHER -> "MemeWritten"

\* create_meme has no try/except: an exception raised by a stage leaves
\* create_meme at once (lines 47-52)
Raise(exc) == pc' = "Failed" /\ raised' = exc

\* The variant that reads the field with a default, as .get('q', '') would:
\* a first element without q gives the empty quote instead of a KeyError.
get_random_quote_default ==
    /\ requests' = Append(requests, QuoteUrl)
    /\ \E resp \in QuoteResponses :
         /\ responses' = Append(responses, resp)
         /\ IF resp.kind # "ok"
            THEN /\ Raise(resp.kind)
                 /\ Called("get_random_quote", <<>>, <<>>)
                 /\ UNCHANGED quote
            ELSE IF resp.json = <<>>
            THEN /\ Raise("IndexError")
                 /\ Called("get_random_quote", <<>>, <<>>)
                 /\ UNCHANGED quote
            ELSE LET q == IF "q" \in DOMAIN resp.json[1]
                          THEN resp.json[1].q ELSE <<>>
                 IN  /\ quote' = q
                     /\ Called("get_random_quote", <<>>, <<q>>)
                     /\ pc' = "QuoteFetched"
                     /\ UNCHANGED raised

\* get_random_quote(), lines 4-7
get_random_quote ==
    /\ requests' = Append(requests, QuoteUrl)
    /\ \E resp \in QuoteResponses :
         /\ responses' = Append(responses, resp)
         /\ IF resp.kind # "ok"
            THEN /\ Raise(resp.kind)
                 /\ Called("get_random_quote", <<>>, <<>>)
                 /\ UNCHANGED quote
            ELSE IF resp.json = <<>>
            THEN /\ Raise("IndexError")
                 /\ Called("get_random_quote", <<>>, <<>>)
                 /\ UNCHANGED quote
            ELSE IF "q" \notin DOMAIN resp.json[1]
            THEN /\ Raise("KeyError")
                 /\ Called("get_random_quote", <<>>, <<>>)
                 /\ UNCHANGED quote
            ELSE /\ quote' = resp.json[1].q
                 /\ Called("get_random_quote", <<>>, <<resp.json[1].q>>)
                 /\ pc' = "QuoteFetched"
                 /\ UNCHANGED raised

\* generate_meme(top, bottom), lines 12-31
generate_meme(top, bottom) ==
    \E i \in 1..Len(memes) :
        LET random_meme == memes[i]
            url == construct_meme_url(random_meme, top, bottom)
        IN  /\ requests' = Append(requests, url)
            /\ \/ /\ responses' = Append(responses, [kind |-> "ConnectionError"])
                  /\ Raise("ConnectionError")
                  /\ Called("generate_meme", <<top, bottom>>, <<>>)
                  /\ UNCHANGED meme
               \/ \E content \in Payloads :
                    /\ responses' = Append(responses,
                                           [kind |-> "ok", content |-> content])
                    /\ meme' = content
                    /\ Called("generate_meme", <<top, bottom>>, <<content>>)
                    /\ pc' = "MemeRendered"
                    /\ UNCHANGED raised

\* save_meme(data), lines 33-36.  The file object is bound to the local f
\* only and the code never closes it: once save_meme is left, by return or
\* by exception, whether the handle has been released is up to the
\* interpreter (reference counting closes it when the frame dies; a frame
\* kept alive by the traceback, or a tracing collector, leaves it open).
save_meme(data) ==
    /\ opened' = Append(opened, <<"meme.jpg", "wb">>)
    /\ \/ /\ Raise("OSError")          \* open() raises: there is no file object
          /\ Called("save_meme", <<data>>, <<>>)
          /\ UNCHANGED <<written, handle>>
       \/ /\ written' = Append(written, data)
          /\ handle' \in {"open", "closed"}
          /\ \/ /\ Raise("OSError")    \* f.write() raises
                /\ Called("save_meme", <<data>>, <<>>)
             \/ /\ pc' = "MemeWritten"
                /\ Called("save_meme", <<data>>, <<None>>)
                /\ UNCHANGED raised

\* the arguments create_meme passes at its three call sites with arguments
SplitterArgs == <<quote>>
RendererArgsSwapped == <<bottom_text, top_text>>
RendererArgs == <<top_text, bottom_text>>
WriterArgs == <<meme>>

\* create_meme line 49: quote = get_random_quote()
GetRandomQuote ==
    /\ pc = "Start"
    /\ get_random_quote
    /\ UNCHANGED <<top_text, bottom_text, meme, opened, written, handle>>
    /\ UNCHANGED storeVars

\* create_meme line 50: top_text, bottom_text = generate_meme_headings(quote)
GenerateMemeHeadings ==
    /\ pc = "QuoteFetched"
    /\ LET r == generate_meme_headings(SplitterArgs[1])
       IN  /\ Called("generate_meme_headings", SplitterArgs, <<r>>)
           /\ top_text' = r[1]
           /\ bottom_text' = r[2]
    /\ pc' = "HeadingsSplit"
    /\ UNCHANGED <<quote, meme, requests, responses, opened, written, handle,
                   raised>>
    /\ UNCHANGED storeVars

\* create_meme line 51: meme = generate_meme(top_text, bottom_text)
GenerateMeme ==
    /\ pc = "HeadingsSplit"
    /\ generate_meme(RendererArgs[1], RendererArgs[2])
    /\ UNCHANGED <<quote, top_text, bottom_text, opened, written, handle>>
    /\ UNCHANGED storeVars

\* create_meme line 52: save_meme(meme)
SaveMeme ==
    /\ pc = "MemeRendered"
    /\ save_meme(WriterArgs[1])
    /\ UNCHANGED <<quote, top_text, bottom_text, meme, requests, responses>>
    /\ UNCHANGED storeVars

(***************************************************************************)
(* model.py: the mapped class Metric and the session factory.              *)
(*                                                                         *)
(* A Metric object is a record: id is the primary key (0 while the object  *)
(* has none, i.e. it was built by a caller and never flushed), session     *)
(* names the session the object is attached to ("none" for a new object).  *)
(* A row of table `metrics` is [id, name, value].                          *)
(***************************************************************************)
Metric(name, value) ==
    [id |-> 0, name |-> name, value |-> value, session |-> "none"]

\* the object the ORM builds for a row loaded by a query of session `sess`
Loaded(row, sess) ==
    [id |-> row.id, name |-> row.name, value |-> row.value, session |-> sess]

Call(fn, arg) == [call |-> fn, arg |-> arg]

UpperCase == <<"A", "B", "C", "D", "E", "F", "G", "H", "I", "J", "K", "L", "M",
               "N", "O", "P", "Q", "R", "S", "T", "U", "V", "W", "X", "Y", "Z">>
LowerCase == <<"a", "b", "c", "d", "e", "f", "g", "h", "i", "j", "k", "l", "m",
               "n", "o", "p", "q", "r", "s", "t", "u", "v", "w", "x", "y", "z">>

\* str.lower()
StrLower(s) ==
    [i \in 1..Len(s) |->
        IF \E k \in 1..Len(UpperCase) : UpperCase[k] = s[i]
        THEN LowerCase[CHOOSE k \in 1..Len(UpperCase) : UpperCase[k] = s[i]]
        ELSE s[i]]

\* session.commit(): the flush of the objects added to the session, in the
\* order they were added.  An object without primary key is INSERTed and
\* gets the next rowid; an object that carries the key of a row is UPDATEd
\* in that row.
RECURSIVE Flush(_, _)
Flush(tbl, objs) ==
    IF objs = <<>> THEN tbl
    ELSE LET o == Head(objs)
             t == IF o.id = 0
                  THEN Append(tbl, [id |-> Len(tbl) + 1, name |-> o.name,
                                    value |-> o.value])
                  ELSE [tbl EXCEPT ![o.id] = [id |-> o.id, name |-> o.name,
                                              value |-> o.value]]
         IN  Flush(t, Tail(objs))

\* the objects as they are after the commit that flushed them
RECURSIVE Flushed(_, _, _)
Flushed(tbl, objs, sess) ==
    IF objs = <<>> THEN <<>>
    ELSE LET o == Head(objs)
             k == IF o.id = 0 THEN Len(tbl) + 1 ELSE o.id
         IN  <<[o EXCEPT !.id = k, !.session = sess]>>
                 \o Flushed(Flush(tbl, <<o>>), Tail(objs), sess)

(***************************************************************************)
(* metrics.py.  Each function is an operator from the table (and the       *)
(* arguments) to the table afterwards, the calls made (trace), the value   *)
(* returned (ret), the exception raised (exc) and the argument objects as  *)
(* the call leaves them (objs).                                            *)
(***************************************************************************)
insert_metrics_commit_each(tbl, metrics) ==
    [table |-> Flush(tbl, metrics),
     trace |-> <<Call("insert_metrics", metrics), Call("Session", <<>>)>>
               \o [i \in 1..(2 * Len(metrics)) |->
                     IF i % 2 = 1 THEN Call("add", metrics[(i + 1) \div 2])
                     ELSE Call("commit", <<>>)],
     ret   |-> None,
     exc   |-> "none",
     objs  |-> Flushed(tbl, metrics, "insert_metrics")]

\* The variant that writes by name: a record whose name a row already
\* carries overwrites the first such row instead of becoming a new row.
insert_metrics_upsert(tbl, metrics) ==
    LET keyed == [i \in 1..Len(metrics) |->
                    LET hits == {j \in 1..Len(tbl) : tbl[j].name = metrics[i].name}
                    IN  IF hits = {} THEN metrics[i]
                        ELSE [metrics[i] EXCEPT
                                 !.id = CHOOSE j \in hits : \A k \in hits : j <= k]]
    IN  [table |-> Flush(tbl, keyed),
         trace |-> <<Call("insert_metrics", metrics), Call("Session", <<>>)>>
                   \o [i \in 1..Len(metrics) |-> Call("add", metrics[i])]
                   \o <<Call("commit", <<>>)>>,
         ret   |-> None,
         exc   |-> "none",
         objs  |-> Flushed(tbl, keyed, "insert_metrics")]

insert_metrics(tbl, metrics) ==
    [table |-> Flush(tbl, metrics),
     trace |-> <<Call("insert_metrics", metrics), Call("Session", <<>>)>>
               \o [i \in 1..Len(metrics) |-> Call("add", metrics[i])]
               \o <<Call("commit", <<>>)>>,
     ret   |-> None,
     exc   |-> "none",
     objs  |-> Flushed(tbl, metrics, "insert_metrics")]

find_metric_by_name_nocase(tbl, name) ==
    LET hits == {i \in 1..Len(tbl) : StrLower(tbl[i].name) = StrLower(name)}
    IN  [table |-> tbl,
         trace |-> <<Call("find_metric_by_name", name), Call("Session", <<>>),
                     Call("query", name)>>,
         ret   |-> IF hits = {} THEN None
                   ELSE Loaded(tbl[CHOOSE i \in hits : \A j \in hits : i <= j],
                               "find_metric_by_name"),
         exc   |-> "none",
         objs  |-> <<>>]

\* .filter(Metric.name == name).first(): SQLite compares text byte by byte
\* and scans the table in rowid order
find_metric_by_name(tbl, name) ==
    LET hits == {i \in 1..Len(tbl) : tbl[i].name = name}
    IN  [table |-> tbl,
         trace |-> <<Call("find_metric_by_name", name), Call("Session", <<>>),
                     Call("query", name)>>,
         ret   |-> IF hits = {} THEN None
                   ELSE Loaded(tbl[CHOOSE i \in hits : \A j \in hits : i <= j],
                               "find_metric_by_name"),
         exc   |-> "none",
         objs  |-> <<>>]

\* The variant that always INSERTs the object as a new row, whatever its
\* primary key and whichever session holds it.
insert_metric_normalized_name_new_row(tbl, metric, holderAlive) ==
    LET call == <<Call("insert_metric_normalized_name", metric),
                  Call("Session", <<>>)>>
    IN  IF metric = None
        THEN [table |-> tbl, trace |-> call, ret |-> None,
              exc |-> "AttributeError", objs |-> <<metric>>]
        ELSE LET m1 == [metric EXCEPT !.name = StrLower(@)]
                 fresh == [m1 EXCEPT !.id = 0]
             IN  [table |-> Flush(tbl, <<fresh>>),
                  trace |-> call \o <<Call("add", m1), Call("commit", <<>>)>>,
                  ret   |-> None,
                  exc   |-> "none",
                  objs  |-> Flushed(tbl, <<fresh>>,
                                    "insert_metric_normalized_name")]

\* holderAlive: whether the session the object was loaded by is still in
\* the ORM's registry of sessions when session.add runs.  Nothing in the
\* code closes that session; it disappears only when the interpreter
\* collects it, so both outcomes occur.  session.add refuses an object that
\* a registered session other than this one holds.
insert_metric_normalized_name(tbl, metric, holderAlive) ==
    LET call == <<Call("insert_metric_normalized_name", metric),
                  Call("Session", <<>>)>>
    IN  IF metric = None
        THEN \* line 21: None has no attribute `name`
             [table |-> tbl, trace |-> call, ret |-> None,
              exc |-> "AttributeError", objs |-> <<metric>>]
        ELSE LET m1 == [metric EXCEPT !.name = StrLower(@)]
             IN  IF m1.session # "none" /\ holderAlive
                 THEN [table |-> tbl,
                       trace |-> call \o <<Call("add", m1)>>,
                       ret   |-> None,
                       exc   |-> "InvalidRequestError",
                       objs  |-> <<m1>>]
                 ELSE [table |-> Flush(tbl, <<m1>>),
                       trace |-> call \o <<Call("add", m1), Call("commit", <<>>)>>,
                       ret   |-> None,
                       exc   |-> "none",
                       objs  |-> Flushed(tbl, <<m1>>,
                                         "insert_metric_normalized_name")]

find_and_square_metric(tbl, name, holderAlive) ==
    LET f == find_metric_by_name(tbl, name)
        metric == IF f.ret # None
                  THEN [f.ret EXCEPT !.value = f.ret.value * f.ret.value]
                  ELSE f.ret
        ins == insert_metric_normalized_name(tbl, metric, holderAlive)
    IN  [table |-> ins.table,
         trace |-> <<Call("find_and_square_metric", name)>> \o f.trace
                       \o ins.trace,
         ret   |-> IF ins.exc = "none" THEN ins.objs[1] ELSE None,
         exc   |-> ins.exc,
         objs  |-> <<f.ret>>]

(***************************************************************************)
(* The callers of metrics.py.                                              *)
(***************************************************************************)
Names   == {<<"F", "o">>, <<"f", "o">>, <<"b">>}
Values  == 0..MaxValue
NewMetrics == {Metric(n, v) : n \in Names, v \in Values}
Batches == UNION {[1..k -> NewMetrics] : k \in 0..MaxBatch}

\* Every store operation leaves the table, the calls it made and its record.
Done(op, arg, r) ==
    /\ table' = r.table
    /\ trace' = r.trace
    /\ outcome' = [op |-> op, arg |-> arg, before |-> table, ret |-> r.ret,
                   exc |-> r.exc, objs |-> r.objs]
    /\ UNCHANGED memeVars

InsertMetrics ==
    \E metrics \in Batches :
        /\ Len(table) + Len(metrics) <= MaxRows
        /\ Done("insert_metrics", metrics, insert_metrics(table, metrics))

FindMetricByName ==
    \E name \in Names :
        /\ Done("find_metric_by_name", name, find_metric_by_name(table, name))

\* insert_metric_normalized_name on a Metric the caller has just built
InsertNormalizedNew ==
    \E metric \in NewMetrics :
        /\ Len(table) < MaxRows
        /\ Done("insert_metric_normalized_name", metric,
                insert_metric_normalized_name(table, metric, FALSE))

\* insert_metric_normalized_name on a Metric the caller got from
\* find_metric_by_name
InsertNormalizedFound ==
    \E name \in Names, holderAlive \in BOOLEAN :
        LET metric == find_metric_by_name(table, name).ret
        IN  /\ metric # None
            /\ Done("insert_metric_normalized_name", metric,
                    insert_metric_normalized_name(table, metric, holderAlive))

\* Values above MaxValue are not squared again, which keeps the values of
\* the table bounded.
FindAndSquareMetric ==
    \E name \in Names, holderAlive \in BOOLEAN :
        LET found == find_metric_by_name(table, name).ret
        IN  /\ found # None => found.value <= MaxValue
            /\ Done("find_and_square_metric", name,
                    find_and_square_metric(table, name, holderAlive))

(***************************************************************************)
(* Specifications.                                                         *)
(***************************************************************************)
MemeInit ==
    /\ pc = "Start"
    /\ quote = <<>>
    /\ top_text = <<>>
    /\ bottom_text = <<>>
    /\ meme = <<>>
    /\ calls = <<>>
    /\ requests = <<>>
    /\ responses = <<>>
    /\ opened = <<>>
    /\ written = <<>>
    /\ handle = "none"
    /\ raised = "none"
    /\ table = <<>>
    /\ trace = <<>>
    /\ outcome = [op |-> "none"]

MemeNext == GetRandomQuote \/ GenerateMemeHeadings \/ GenerateMeme \/ SaveMeme

MemeSpec == MemeInit /\ [][MemeNext]_vars

\* create_db() has run: the table exists and is empty
StoreInit ==
    /\ pc = "Start"
    /\ quote = <<>>
    /\ top_text = <<>>
    /\ bottom_text = <<>>
    /\ meme = <<>>
    /\ calls = <<>>
    /\ requests = <<>>
    /\ responses = <<>>
    /\ opened = <<>>
    /\ written = <<>>
    /\ handle = "none"
    /\ raised = "none"
    /\ table = <<>>
    /\ trace = <<>>
    /\ outcome = [op |-> "none"]

StoreNext ==
    \/ InsertMetrics
    \/ FindMetricByName
    \/ InsertNormalizedNew
    \/ InsertNormalizedFound
    \/ FindAndSquareMetric

StoreSpec == StoreInit /\ [][StoreNext]_vars

(***************************************************************************)
(* Properties of the meme pipeline (checked under MemeSpec).               *)
(***************************************************************************)
StageOrder == <<"get_random_quote", "generate_meme_headings", "generate_meme",
                "save_meme">>

RenderRequests == {i \in 1..Len(requests) : requests[i] # QuoteUrl}

\* The stages appear in the order fetch, split, render, write; a stage's
\* effects exist only once it has been called.
StagesInOrder ==
    /\ Len(calls) <= Len(StageOrder)
    /\ \A i \in 1..Len(calls) : calls[i].fn = StageOrder[i]
    /\ RenderRequests # {} => Len(calls) >= 3
    /\ (opened # <<>> \/ written # <<>> \/ handle # "none") => Len(calls) = 4

\* A failed run has ended at the stage that failed: that stage is the last
\* call and it did not return.
FailureEndsRun ==
    raised # "none" =>
        /\ pc = "Failed"
        /\ calls # <<>>
        /\ calls[Len(calls)].ret = <<>>
        /\ \A i \in 1..(Len(calls) - 1) : calls[i].ret # <<>>

\* When the quote fetch fails, no render request is issued and the writer
\* is never invoked.
FetchFailureStopsAll ==
    (raised # "none" /\ Len(calls) = 1) =>
        /\ requests = <<QuoteUrl>>
        /\ RenderRequests = {}
        /\ opened = <<>>
        /\ written = <<>>
        /\ handle = "none"

\* C1: in every run of create_meme the stages occur in the order fetch
\* quote, split headings, render meme, write file; a failure of any stage
\* ends the run with that failure and no later stage is invoked afterwards
\* (no call, no request, no file operation); when the quote fetch fails, no
\* render request is issued and the file writer is never invoked.
C1_StrictSequence ==
    /\ [](StagesInOrder /\ FailureEndsRun /\ FetchFailureStopsAll)
    /\ [][raised # "none" =>
            UNCHANGED <<calls, requests, opened, written, handle>>]_vars

\* C1 witness: the quote fetch has failed and the run is over.
C1_Witness ==
    /\ pc = "Failed"
    /\ Len(calls) = 1
    /\ calls[1].fn = "get_random_quote"
    /\ raised = "ConnectionError"

\* The words of a string, stated without str.split: the maximal runs of
\* non-whitespace characters, as <<first, last>> index pairs.
WordSpans(s) ==
    {sp \in (1..Len(s)) \X (1..Len(s)) :
        /\ sp[1] <= sp[2]
        /\ \A k \in sp[1]..sp[2] : ~IsSpace(s[k])
        /\ (sp[1] = 1 \/ IsSpace(s[sp[1] - 1]))
        /\ (sp[2] = Len(s) \/ IsSpace(s[sp[2] + 1]))}

\* the k-th word of s
WordAt(s, k) ==
    LET sp == CHOOSE x \in WordSpans(s) :
                  Cardinality({y \in WordSpans(s) : y[1] < x[1]}) = k - 1
    IN  SubSeq(s, sp[1], sp[2])

WordsOf(s) == [k \in 1..Cardinality(WordSpans(s)) |-> WordAt(s, k)]

\* s is words joined by single blanks: the only whitespace in s is " ",
\* never first, never last and never doubled
SingleSpaced(s) ==
    /\ \A k \in 1..Len(s) : IsSpace(s[k]) => s[k] = " "
    /\ s # <<>> => s[1] # " " /\ s[Len(s)] # " "
    /\ \A k \in 1..(Len(s) - 1) : ~(s[k] = " " /\ s[k + 1] = " ")

\* C6: for a quote of n whitespace-separated words, generate_meme_headings
\* returns (top, bottom) with top the first floor(n/2) words and bottom the
\* remaining words, each joined by single spaces, so that the words of top
\* followed by the words of bottom are the quote's words in order; the
\* empty quote gives ("", "") and "a b c" gives ("a", "b c").
C6_SplitHeading ==
    pc = "HeadingsSplit" =>
        LET q      == calls[2].args[1]
            top    == calls[2].ret[1][1]
            bottom == calls[2].ret[1][2]
            words  == WordsOf(q)
            n      == Len(words)
        IN  /\ WordsOf(top) = SubSeq(words, 1, n \div 2)
            /\ WordsOf(bottom) = SubSeq(words, (n \div 2) + 1, n)
            /\ WordsOf(top) \o WordsOf(bottom) = words
            /\ SingleSpaced(top) /\ SingleSpaced(bottom)
            /\ q = <<>> => (top = <<>> /\ bottom = <<>>)
            /\ q = <<"a", " ", "b", " ", "c">> =>
                   (top = <<"a">> /\ bottom = <<"b", " ", "c">>)
            /\ top_text = top /\ bottom_text = bottom

\* C6 witness: the quote "a b c" has been split.
C6_Witness ==
    /\ pc = "HeadingsSplit"
    /\ calls[2].args = <<(<<"a", " ", "b", " ", "c">>)>>
    /\ top_text = <<"a">>

\* C7: in a run of create_meme in which no stage fails, each of the four
\* stages is invoked exactly once, the splitter receives exactly the fetched
\* quote, the renderer receives exactly the (top, bottom) pair returned by
\* the splitter, and the writer receives exactly the bytes returned by the
\* renderer.
C7_DataFlow ==
    pc = "MemeWritten" =>
        /\ Len(calls) = 4
        /\ \A i \in 1..4 : calls[i].fn = StageOrder[i] /\ calls[i].ret # <<>>
        /\ calls[1].args = <<>>
        /\ calls[2].args = <<calls[1].ret[1]>>
        /\ calls[3].args = calls[2].ret[1]
        /\ calls[4].args = <<calls[3].ret[1]>>
        /\ calls[1].ret[1] = responses[1].json[1].q
        /\ written = <<calls[3].ret[1]>>

\* C7 witness: a run without failure whose headings differ and whose image
\* is not empty.
C7_Witness ==
    /\ pc = "MemeWritten"
    /\ top_text # bottom_text
    /\ top_text # <<>>
    /\ meme # <<>>

\* C8 as claimed: save_meme opens meme.jpg for binary writing exactly once,
\* writes the given bytes in one write, and after it returns or fails no
\* file handle it acquired remains open.
C8_HandleReleased ==
    Len(calls) = 4 =>
        /\ opened = <<(<<"meme.jpg", "wb">>)>>
        /\ written \in {<<>>, <<calls[4].args[1]>>}
        /\ handle # "open"

Range(f) == {f[i] : i \in DOMAIN f}

\* C10: for every top and bottom text, generate_meme picks a template name
\* from the fixed set of eleven names, builds the request target
\* meme=<name>&top=<top>&bottom=<bottom> from that name and the given
\* texts, issues exactly one request to it, and returns the payload of that
\* response unchanged.
C10_RenderMeme ==
    Len(calls) >= 3 =>
        LET top    == calls[3].args[1]
            bottom == calls[3].args[2]
        IN  /\ Cardinality(Range(memes)) = 11
            /\ Len(requests) = 2
            /\ Len(responses) = 2
            /\ \E name \in Range(memes) :
                 requests[2] =
                     <<"https://apimeme.com/meme?meme=", name, "&top=">>
                         \o top \o <<"&bottom=">> \o bottom
            /\ responses[2].kind = "ok" =>
                   /\ calls[3].ret = <<responses[2].content>>
                   /\ (pc = "MemeRendered" => meme = responses[2].content)
            /\ responses[2].kind # "ok" => calls[3].ret = <<>>

\* C10 witness: a meme was rendered for distinct, non-empty top and bottom
\* texts with a template other than the first, and a payload came back.
C10_Witness ==
    /\ pc = "MemeRendered"
    /\ top_text # <<>>
    /\ top_text # bottom_text
    /\ requests[2][2] = "Castaway-Fire"
    /\ meme = <<109, 101>>

(***************************************************************************)
(* Properties of the metric store (checked under StoreSpec).               *)
(***************************************************************************)
TraceCalls(fn) == {i \in 1..Len(trace) : trace[i].call = fn}

RowOf(m) == [id |-> m.id, name |-> m.name, value |-> m.value]

\* the last operation was find_and_square_metric and its lookup found nothing
SquaredAbsent ==
    /\ outcome.op = "find_and_square_metric"
    /\ outcome.objs[1] = None

\* the last operation was find_and_square_metric and its lookup found a record
SquaredPresent ==
    /\ outcome.op = "find_and_square_metric"
    /\ outcome.objs[1] # None

\* C2 as claimed: find_and_square_metric with a name that matches no record
\* yields an absent / not-found outcome, makes no insert call (it does not
\* invoke insert_metric_normalized_name, nothing is added to or committed in
\* any session) and leaves the store unchanged.
C2_AbsentNoInsert ==
    SquaredAbsent =>
        /\ outcome.ret = None
        /\ outcome.exc \in {"none", "NotFoundError"}
        /\ TraceCalls("insert_metric_normalized_name") = {}
        /\ TraceCalls("add") = {}
        /\ TraceCalls("commit") = {}
        /\ table = outcome.before

\* C3 as claimed: find_and_square_metric with a name that matches a record
\* of value v looks the name up exactly once, returns the record with value
\* v squared, and calls insert_metric_normalized_name exactly once, for that
\* record, which persists it under the lower-cased name.
C3_PresentSquared ==
    SquaredPresent =>
        LET found == outcome.objs[1]
            v2    == found.value * found.value
        IN  /\ Cardinality(TraceCalls("find_metric_by_name")) = 1
            /\ \A i \in TraceCalls("find_metric_by_name") :
                   trace[i].arg = outcome.arg
            /\ found.name = outcome.arg
            /\ Cardinality(TraceCalls("insert_metric_normalized_name")) = 1
            /\ \A i \in TraceCalls("insert_metric_normalized_name") :
                   trace[i].arg = [found EXCEPT !.value = v2]
            /\ outcome.exc = "none"
            /\ outcome.ret # None
            /\ outcome.ret.value = v2
            /\ \E i \in 1..Len(table) :
                   /\ table[i].name = StrLower(outcome.arg)
                   /\ table[i].value = v2

\* the record that the last operation handed to insert_metric_normalized_name,
\* as it was when the call began
NormalizedArg ==
    IF outcome.op = "insert_metric_normalized_name" THEN outcome.arg
    ELSE [outcome.objs[1] EXCEPT !.value = @ * @]

NormalizedCalled ==
    \/ outcome.op = "insert_metric_normalized_name"
    \/ SquaredPresent

C5_InsertMany ==
    outcome.op = "insert_metrics" =>
        LET ms == outcome.arg
            n  == Len(ms)
        IN  /\ Cardinality(TraceCalls("Session")) = 1
            /\ Cardinality(TraceCalls("add")) = n
            /\ Cardinality(TraceCalls("commit")) = 1
            /\ Len(trace) = n + 3
            /\ trace[2].call = "Session"
            /\ \A i \in 1..n : trace[2 + i] = Call("add", ms[i])
            /\ trace[n + 3].call = "commit"
            /\ Len(table) = Len(outcome.before) + n
            /\ \A i \in 1..n :
                   /\ table[Len(outcome.before) + i].name = ms[i].name
                   /\ table[Len(outcome.before) + i].value = ms[i].value

\* C5 witness: two different records were inserted in one call.
C5_Witness ==
    /\ outcome.op = "insert_metrics"
    /\ Len(outcome.arg) >= 2
    /\ outcome.arg[1] # outcome.arg[2]

\* C9: find_metric_by_name returns a record only if its stored name equals
\* the requested name exactly, case included, and returns None when there
\* is no such row; insert_metrics stores names as given, so a record it
\* inserted under a name with upper-case letters is found under that exact
\* name, and is found under the lower-cased name only if some row carries
\* that lower-cased name.
C9_ExactName ==
    /\ outcome.op = "find_metric_by_name" =>
         LET r == outcome.ret
         IN  /\ table = outcome.before
             /\ r # None =>
                  /\ r.name = outcome.arg
                  /\ r.id \in 1..Len(table)
                  /\ table[r.id] = RowOf(r)
             /\ r = None <=> (\A i \in 1..Len(table) : table[i].name # outcome.arg)
    /\ outcome.op = "insert_metrics" =>
         \A k \in 1..Len(outcome.arg) :
             LET m == outcome.arg[k]
             IN  /\ Len(outcome.before) + k <= Len(table)
                 /\ table[Len(outcome.before) + k].name = m.name
                 /\ find_metric_by_name(table, m.name).ret # None
                 /\ find_metric_by_name(table, m.name).ret.name = m.name
                 /\ (\A i \in 1..Len(table) : table[i].name # StrLower(m.name))
                        => find_metric_by_name(table, StrLower(m.name)).ret = None

\* C9 witness: a row named "Fo" is stored and the lookup of "fo" returned
\* None.
C9_Witness ==
    /\ outcome.op = "find_metric_by_name"
    /\ outcome.arg = <<"f", "o">>
    /\ outcome.ret = None
    /\ \E i \in 1..Len(table) : table[i].name = <<"F", "o">>

(***************************************************************************)
(* Further properties of the meme pipeline (checked under MemeSpec).       *)
(***************************************************************************)
\* the response to the quote request carries a first element with field q
QuoteDelivered ==
    /\ responses[1].kind = "ok"
    /\ responses[1].json # <<>>
    /\ "q" \in DOMAIN responses[1].json[1]

\* C11: get_random_quote issues exactly one outbound request and returns
\* the field q of the first element of the returned collection; when the
\* request fails, the collection is empty or its first element has no q,
\* it raises, the exception leaves create_meme uncaught, and no quote is
\* returned.
C11_FetchQuote ==
    Len(calls) >= 1 =>
        /\ calls[1].fn = "get_random_quote"
        /\ requests[1] = QuoteUrl
        /\ {i \in 1..Len(requests) : requests[i] = QuoteUrl} = {1}
        /\ Len(calls) = 1 => Len(requests) = 1
        /\ QuoteDelivered =>
             /\ calls[1].ret = <<responses[1].json[1].q>>
             /\ quote = responses[1].json[1].q
             /\ Len(calls) = 1 => (pc = "QuoteFetched" /\ raised = "none")
        /\ ~QuoteDelivered =>
             /\ calls[1].ret = <<>>
             /\ Len(calls) = 1
             /\ pc = "Failed"
             /\ raised \in {"ConnectionError", "JSONDecodeError", "IndexError",
                            "KeyError"}
             /\ raised = IF responses[1].kind # "ok" THEN responses[1].kind
                         ELSE IF responses[1].json = <<>> THEN "IndexError"
                         ELSE "KeyError"
             /\ quote = <<>>

\* C11 witness: the collection's first element had no field q and the
\* KeyError has left create_meme.
C11_Witness ==
    /\ Len(calls) = 1
    /\ responses[1].kind = "ok"
    /\ responses[1].json # <<>>
    /\ "q" \notin DOMAIN responses[1].json[1]
    /\ raised = "KeyError"
    /\ pc = "Failed"

C13_ReturnsMutated ==
    SquaredPresent =>
        LET found == outcome.objs[1]
            v2    == found.value * found.value
        IN  /\ outcome.exc = "none"
            /\ outcome.ret # None
            /\ outcome.ret.id = found.id
            /\ outcome.ret.value = v2
            /\ outcome.ret.name = StrLower(outcome.arg)
            /\ \A i \in TraceCalls("insert_metric_normalized_name") :
                   /\ trace[i].arg.id = outcome.ret.id
                   /\ trace[i].arg.value = outcome.ret.value
            /\ \A i \in TraceCalls("add") :
                   /\ trace[i].arg.id = outcome.ret.id
                   /\ trace[i].arg.name = outcome.ret.name
                   /\ trace[i].arg.value = outcome.ret.value

====
